---- MODULE Spec2Model ----
(***************************************************************************)
(* Model of the chat server of main.py: Application.handle_session,        *)
(* ChatRoom and ChatSession, run by a single-threaded asyncio event loop.  *)
(*                                                                         *)
(* Every action is one run of one task between two suspension points (an   *)
(* "await" that really suspends); the event loop runs such a piece without *)
(* interleaving anything else.  Each session owns two tasks: the reader    *)
(* (the aiohttp handler task running handle_session and ChatSession.run)   *)
(* and the writer (ChatSession.write).  Task.cancel() only requests the    *)
(* cancellation; the CancelledError is raised in the cancelled task when   *)
(* the event loop next runs it.                                            *)
(*                                                                         *)
(* The synchronous methods (ChatRoom.register/unregister/send and          *)
(* ChatSession.send/stop) are operators from a heap record (the values of  *)
(* all variables) to the heap after the call.                              *)
(***************************************************************************)
EXTENDS Integers, Sequences, FiniteSets, TLC

\* Number of connections the server accepts in a run.
NumSessions == 2

\* Number of inbound frames that are read in a run, over all sessions
\* (frames that end a session's reader are not counted).
MaxFrames == 2

\* ChatSession.MAX_MESSAGES, the capacity of a session's outbound queue.  The
\* source sets it to 100; the code only ever compares a queue length with it,
\* and the model is checked with a small capacity so that queues fill up.
MAX_MESSAGES == 3

\* Texts a client puts into a message frame.
Bodies == {"a", "b"}

Sessions == 1..NumSessions

Absent == "<absent>"

VARIABLES
  sessionCount,   \* Application._session_count: number of the next session
  sessions,       \* ChatRoom._sessions
  messageQueue,   \* ChatSession._message_queue, per session
  queueEvent,     \* ChatSession._queue_event is set, per session
  readTask,       \* ChatSession._read_task: where the handler task is
  readCancel,     \* cancellation of the read task requested, not yet raised
  writeTask,      \* ChatSession._write_task: where the writer task is, or how it ended
  writeCancel,    \* cancellation of the write task requested, not yet raised
  sending,        \* the queue entry the writer passed to send_str, as a sequence of length <= 1
  framesRead,     \* number of frames read so far
  roomLog,        \* history: the calls of ChatRoom.send, in order, with the members at the call
  received,       \* history: the entries ChatSession.send appended to the queue, per session
  written,        \* history: the entries send_str has written to the connection, per session
  dropped,        \* history: numbers of the broadcasts ChatSession.send dropped, per session
  registered,     \* history: number of completed ChatRoom.register calls, per session
  unregistered,   \* history: number of completed ChatRoom.unregister calls, per session
  failed          \* history: the assertions and iterations that failed

vars == <<sessionCount, sessions, messageQueue, queueEvent, readTask, readCancel,
          writeTask, writeCancel, sending, framesRead, roomLog, received, written,
          dropped, registered, unregistered, failed>>

\* The heap: the values of all variables, as the operators for the methods take it.
Heap ==
  [sessionCount |-> sessionCount, sessions |-> sessions, messageQueue |-> messageQueue,
   queueEvent |-> queueEvent, readTask |-> readTask, readCancel |-> readCancel,
   writeTask |-> writeTask, writeCancel |-> writeCancel, sending |-> sending,
   framesRead |-> framesRead, roomLog |-> roomLog, received |-> received,
   written |-> written, dropped |-> dropped, registered |-> registered,
   unregistered |-> unregistered, failed |-> failed]

\* The next state is the heap H.
Becomes(H) ==
  /\ sessionCount' = H.sessionCount
  /\ sessions' = H.sessions
  /\ messageQueue' = H.messageQueue
  /\ queueEvent' = H.queueEvent
  /\ readTask' = H.readTask
  /\ readCancel' = H.readCancel
  /\ writeTask' = H.writeTask
  /\ writeCancel' = H.writeCancel
  /\ sending' = H.sending
  /\ framesRead' = H.framesRead
  /\ roomLog' = H.roomLog
  /\ received' = H.received
  /\ written' = H.written
  /\ dropped' = H.dropped
  /\ registered' = H.registered
  /\ unregistered' = H.unregistered
  /\ failed' = H.failed

----------------------------------------------------------------------------
(* Messages *)

\* The display name handle_session gives the session with number s: f"User#{s}".
name(s) == "User#" \o ToString(s)

\* make_message: the JSON text of the object with the two keys, which decodes
\* to exactly this author and this message.
make_message(author, message) == [author |-> author, message |-> message]

joined(s) == name(s) \o " has joined the room."
left(s) == name(s) \o " has left the room."

\* An entry of a message queue: the message, with the number of the
\* ChatRoom.send call that fanned it out (its index in roomLog).
Entry(n, message) == [seq |-> n, data |-> message]

----------------------------------------------------------------------------
(* ChatSession.stop, ChatSession.send *)

\* Mutant of stop: it cancels both tasks of the session.
ChatSession_stop_both(H, s) ==
  LET H1 == IF H.readTask[s] # "done"
              THEN [H EXCEPT !.readCancel[s] = TRUE]
              ELSE H
  IN IF H1.writeTask[s] \in {"waiting", "sending"}
       THEN [H1 EXCEPT !.writeCancel[s] = TRUE]
       ELSE H1

\* Mutant of stop: the session is removed from the room at once.
ChatSession_stop_evict(H, s) ==
  IF H.readTask[s] # "done"
    THEN [H EXCEPT !.readCancel[s] = TRUE, !.sessions = @ \ {s}]
    ELSE H

\* Mutant of stop: the read task is cancelled without the test for done.
ChatSession_stop_unguarded(H, s) == [H EXCEPT !.readCancel[s] = TRUE]

\* stop(): cancel the read task unless it is done.
ChatSession_stop(H, s) ==
  IF H.readTask[s] # "done"
    THEN [H EXCEPT !.readCancel[s] = TRUE]
    ELSE H

\* Mutant of send: the capacity test is > instead of >=.
ChatSession_send_offByOne(H, s, entry) ==
  IF Len(H.messageQueue[s]) > MAX_MESSAGES
    THEN ChatSession_stop([H EXCEPT !.dropped[s] = Append(@, entry.seq)], s)
    ELSE LET was_empty == Len(H.messageQueue[s]) = 0
         IN [H EXCEPT !.messageQueue[s] = Append(@, entry),
                      !.received[s] = Append(@, entry),
                      !.queueEvent[s] = IF was_empty /\ ~@ THEN TRUE ELSE @]

\* Mutant of send: a full queue drops the message without calling stop().
ChatSession_send_noStop(H, s, entry) ==
  IF Len(H.messageQueue[s]) >= MAX_MESSAGES
    THEN [H EXCEPT !.dropped[s] = Append(@, entry.seq)]
    ELSE LET was_empty == Len(H.messageQueue[s]) = 0
         IN [H EXCEPT !.messageQueue[s] = Append(@, entry),
                      !.received[s] = Append(@, entry),
                      !.queueEvent[s] = IF was_empty /\ ~@ THEN TRUE ELSE @]

\* Mutant of send: the capacity test is >= MAX_MESSAGES - 1.
ChatSession_send_early(H, s, entry) ==
  IF Len(H.messageQueue[s]) >= MAX_MESSAGES - 1
    THEN ChatSession_stop([H EXCEPT !.dropped[s] = Append(@, entry.seq)], s)
    ELSE LET was_empty == Len(H.messageQueue[s]) = 0
         IN [H EXCEPT !.messageQueue[s] = Append(@, entry),
                      !.received[s] = Append(@, entry),
                      !.queueEvent[s] = IF was_empty /\ ~@ THEN TRUE ELSE @]

\* Mutant of send: the event is not set.
ChatSession_send_noWake(H, s, entry) ==
  IF Len(H.messageQueue[s]) >= MAX_MESSAGES
    THEN ChatSession_stop([H EXCEPT !.dropped[s] = Append(@, entry.seq)], s)
    ELSE [H EXCEPT !.messageQueue[s] = Append(@, entry),
                   !.received[s] = Append(@, entry)]

\* send(message): a full queue drops the message and stops the session;
\* otherwise the message is appended and the event is set if the queue was empty.
ChatSession_send(H, s, entry) ==
  IF Len(H.messageQueue[s]) >= MAX_MESSAGES
    THEN ChatSession_stop([H EXCEPT !.dropped[s] = Append(@, entry.seq)], s)
    ELSE LET was_empty == Len(H.messageQueue[s]) = 0
         IN [H EXCEPT !.messageQueue[s] = Append(@, entry),
                      !.received[s] = Append(@, entry),
                      !.queueEvent[s] = IF was_empty /\ ~@ THEN TRUE ELSE @]

----------------------------------------------------------------------------
(* ChatRoom *)

session_count(H) == Cardinality(H.sessions)

\* Mutant of the loop: it ends at the first member with a full queue (send
\* raises instead of returning).
RECURSIVE SendLoop_breakOnFull(_, _, _, _)
SendLoop_breakOnFull(H, members, todo, entry) ==
  IF todo = {}
    THEN H
    ELSE LET session == CHOOSE x \in todo : TRUE
             H1 == ChatSession_send(H, session, entry)
         IN IF Len(H.messageQueue[session]) >= MAX_MESSAGES
              THEN H1
              ELSE SendLoop_breakOnFull(H1, members, todo \ {session}, entry)

\* The loop of ChatRoom.send over the members still to visit.  Python raises
\* RuntimeError when the set changes during the iteration; the model records it.
RECURSIVE SendLoop(_, _, _, _)
SendLoop(H, members, todo, entry) ==
  IF todo = {}
    THEN H
    ELSE LET session == CHOOSE x \in todo : TRUE
             H1 == ChatSession_send(H, session, entry)
         IN IF H1.sessions # members
              THEN [H1 EXCEPT !.failed = @ \cup {"set changed during iteration"}]
              ELSE SendLoop(H1, members, todo \ {session}, entry)

\* ChatRoom.send(message): session.send(message) for every member.
ChatRoom_send(H, message) ==
  LET n == Len(H.roomLog) + 1
      H1 == [H EXCEPT !.roomLog = Append(@, [message |-> message, members |-> H.sessions])]
  IN SendLoop(H1, H.sessions, H.sessions, Entry(n, message))

\* Mutant of register: the join notice is broadcast before the session is added.
ChatRoom_register_sendFirst(H, s) ==
  IF s \in H.sessions
    THEN [H EXCEPT !.failed = @ \cup {"assert session not in self._sessions"}]
    ELSE LET H1 == ChatRoom_send(H, make_message("SYSTEM", joined(s)))
             H2 == [H1 EXCEPT !.sessions = @ \cup {s}]
         IN [H2 EXCEPT !.registered[s] = @ + 1]

\* ChatRoom.register(session)
ChatRoom_register(H, s) ==
  IF s \in H.sessions
    THEN [H EXCEPT !.failed = @ \cup {"assert session not in self._sessions"}]
    ELSE LET H1 == [H EXCEPT !.sessions = @ \cup {s}]
             H2 == ChatRoom_send(H1, make_message("SYSTEM", joined(s)))
         IN [H2 EXCEPT !.registered[s] = @ + 1]

\* Mutant of unregister: the leave notice is broadcast before the session is removed.
ChatRoom_unregister_sendFirst(H, s) ==
  IF s \notin H.sessions
    THEN [H EXCEPT !.failed = @ \cup {"assert session in self._sessions"}]
    ELSE LET H1 == ChatRoom_send(H, make_message("SYSTEM", left(s)))
             H2 == [H1 EXCEPT !.sessions = @ \ {s}]
         IN [H2 EXCEPT !.unregistered[s] = @ + 1]

\* Mutant of unregister: the session is not removed from the set.
ChatRoom_unregister_noRemove(H, s) ==
  IF s \notin H.sessions
    THEN [H EXCEPT !.failed = @ \cup {"assert session in self._sessions"}]
    ELSE LET H2 == ChatRoom_send(H, make_message("SYSTEM", left(s)))
         IN [H2 EXCEPT !.unregistered[s] = @ + 1]

\* ChatRoom.unregister(session)
ChatRoom_unregister(H, s) ==
  IF s \notin H.sessions
    THEN [H EXCEPT !.failed = @ \cup {"assert session in self._sessions"}]
    ELSE LET H1 == [H EXCEPT !.sessions = @ \ {s}]
             H2 == ChatRoom_send(H1, make_message("SYSTEM", left(s)))
         IN [H2 EXCEPT !.unregistered[s] = @ + 1]

----------------------------------------------------------------------------
(* ChatSession.run: the reader *)

\* Mutant of the finally block: the write task is not cancelled.
run_finally_noCancel(H, s) ==
  LET H1 == ChatRoom_unregister(H, s)
  IN [H1 EXCEPT !.readTask[s] = "closing", !.readCancel[s] = FALSE]

\* The finally block of run: unregister, then cancel the write task unless
\* it is done.  run is over; handle_session goes on to close the socket.
run_finally(H, s) ==
  LET H1 == ChatRoom_unregister(H, s)
      H2 == IF H1.writeTask[s] \notin {"finished", "cancelled"}
              THEN [H1 EXCEPT !.writeCancel[s] = TRUE]
              ELSE H1
  IN [H2 EXCEPT !.readTask[s] = "closing", !.readCancel[s] = FALSE]

\* The frames a connection yields.  A TEXT frame carries JSON text: json says
\* whether json.loads accepts it, dtype and message are the values of the keys
\* "type" and "message" of the decoded object (Absent: no such key).
TextFrame(json, dtype, message) ==
  [type |-> "TEXT", json |-> json, dtype |-> dtype, message |-> message]

OtherFrame(type) == [type |-> type, json |-> FALSE, dtype |-> Absent, message |-> Absent]

Frames ==
  {TextFrame(TRUE, "message", b) : b \in Bodies}
    \cup {TextFrame(TRUE, "ping", Absent),      \* a type that is not "message"
          TextFrame(TRUE, Absent, "a"),         \* no key "type": KeyError
          TextFrame(TRUE, "message", Absent),   \* no key "message": KeyError
          TextFrame(FALSE, Absent, Absent),     \* no JSON: json.loads raises
          OtherFrame("BINARY"),                 \* neither TEXT nor ERROR: skipped
          OtherFrame("ERROR"),
          OtherFrame("CLOSE")}                  \* the iteration over the socket ends

\* Mutant of the loop body: a type that is not "message" raises.
run_frame_strict(H, s, frame) ==
  IF frame.type = "TEXT"
    THEN IF ~frame.json \/ frame.dtype = Absent
           THEN run_finally(H, s)
           ELSE IF frame.dtype = "message"
                  THEN IF frame.message = Absent
                         THEN run_finally(H, s)
                         ELSE ChatRoom_send(H, make_message(name(s), frame.message))
                  ELSE run_finally(H, s)
    ELSE IF frame.type = "ERROR"
           THEN run_finally(H, s)
           ELSE IF frame.type = "CLOSE"
                  THEN run_finally(H, s)
                  ELSE H

\* Mutant of the loop body: the exception of a malformed frame is caught
\* inside the loop, which goes on.
run_frame_lenient(H, s, frame) ==
  IF frame.type = "TEXT"
    THEN IF ~frame.json \/ frame.dtype = Absent
           THEN H
           ELSE IF frame.dtype = "message"
                  THEN IF frame.message = Absent
                         THEN H
                         ELSE ChatRoom_send(H, make_message(name(s), frame.message))
                  ELSE H
    ELSE IF frame.type = "ERROR"
           THEN run_finally(H, s)
           ELSE IF frame.type = "CLOSE"
                  THEN run_finally(H, s)
                  ELSE H

\* The body of the loop of run for one frame, up to the next wait for a frame
\* or through the finally block when the loop ends.
run_frame(H, s, frame) ==
  IF frame.type = "TEXT"
    THEN IF ~frame.json \/ frame.dtype = Absent
           THEN run_finally(H, s)                \* except Exception
           ELSE IF frame.dtype = "message"
                  THEN IF frame.message = Absent
                         THEN run_finally(H, s)  \* except Exception
                         ELSE ChatRoom_send(H, make_message(name(s), frame.message))
                  ELSE H                         \* logger.error("Invalid data type")
    ELSE IF frame.type = "ERROR"
           THEN run_finally(H, s)                \* NameError (ws) or break
           ELSE IF frame.type = "CLOSE"
                  THEN run_finally(H, s)
                  ELSE H

\* handle_session and the start of run: the connection gets the next number,
\* the write task is created, the session registers and waits for a frame.
HandleSession(s) ==
  /\ s = sessionCount
  /\ readTask[s] = "init"
  /\ LET H0 == [Heap EXCEPT !.sessionCount = @ + 1,
                            !.writeTask[s] = "waiting",
                            !.readTask[s] = "reading"]
         H1 == ChatRoom_register(H0, s)
     IN IF H1.failed # H0.failed
          THEN Becomes(run_finally(H1, s))
          ELSE Becomes(H1)

\* The reader receives a frame.  A reader whose cancellation is requested is
\* resumed with the CancelledError instead (ReadCancelled); frames are read
\* one per step.
ReadFrame(s) ==
  /\ readTask[s] = "reading"
  /\ ~readCancel[s]
  /\ \E frame \in Frames :
       LET H1 == run_frame(Heap, s, frame)
       IN IF H1.readTask[s] = "reading"
            THEN /\ framesRead < MaxFrames
                 /\ Becomes([H1 EXCEPT !.framesRead = @ + 1])
            ELSE Becomes(H1)

\* Mutant of the cancelled reader: the CancelledError is re-raised without
\* the finally block.
ReadCancelled_noFinally(s) ==
  /\ readTask[s] = "reading"
  /\ readCancel[s]
  /\ Becomes([Heap EXCEPT !.readTask[s] = "closing", !.readCancel[s] = FALSE])

\* The reader is resumed with the CancelledError: except CancelledError, finally.
ReadCancelled(s) ==
  /\ readTask[s] = "reading"
  /\ readCancel[s]
  /\ Becomes(run_finally(Heap, s))

\* The handler task is cancelled from outside the session (the server shuts
\* down or drops the handler).
CancelHandler(s) ==
  /\ readTask[s] = "reading"
  /\ ~readCancel[s]
  /\ Becomes([Heap EXCEPT !.readCancel[s] = TRUE])

\* handle_session: ws.close() returns (or is cancelled) and the task is done.
HandlerDone(s) ==
  /\ readTask[s] = "closing"
  /\ Becomes([Heap EXCEPT !.readTask[s] = "done", !.readCancel[s] = FALSE])

----------------------------------------------------------------------------
(* ChatSession.write: the writer *)

\* Mutant of the writer: pop() instead of popleft().
write_pop_lifo(H, s) ==
  IF Len(H.messageQueue[s]) = 0
    THEN ChatSession_stop([H EXCEPT !.failed = @ \cup {"assert len(self._message_queue) > 0"},
                                    !.writeTask[s] = "finished"], s)
    ELSE LET message == H.messageQueue[s][Len(H.messageQueue[s])]
             H1 == [H EXCEPT !.messageQueue[s] = SubSeq(@, 1, Len(@) - 1)]
             H2 == IF Len(H1.messageQueue[s]) = 0
                     THEN [H1 EXCEPT !.queueEvent[s] = FALSE]
                     ELSE H1
         IN [H2 EXCEPT !.sending[s] = <<message>>, !.writeTask[s] = "sending"]

\* Mutant of the writer: the event is not cleared when the queue gets empty.
write_pop_noClear(H, s) ==
  IF Len(H.messageQueue[s]) = 0
    THEN ChatSession_stop([H EXCEPT !.failed = @ \cup {"assert len(self._message_queue) > 0"},
                                    !.writeTask[s] = "finished"], s)
    ELSE LET message == Head(H.messageQueue[s])
             H1 == [H EXCEPT !.messageQueue[s] = Tail(@)]
         IN [H1 EXCEPT !.sending[s] = <<message>>, !.writeTask[s] = "sending"]

\* The writer finds the event set: it pops the head, clears the event when
\* the queue is empty now, and calls send_str.
write_pop(H, s) ==
  IF Len(H.messageQueue[s]) = 0
    THEN \* AssertionError, except Exception: stop()
         ChatSession_stop([H EXCEPT !.failed = @ \cup {"assert len(self._message_queue) > 0"},
                                    !.writeTask[s] = "finished"], s)
    ELSE LET message == Head(H.messageQueue[s])
             H1 == [H EXCEPT !.messageQueue[s] = Tail(@)]
             H2 == IF Len(H1.messageQueue[s]) = 0
                     THEN [H1 EXCEPT !.queueEvent[s] = FALSE]
                     ELSE H1
         IN [H2 EXCEPT !.sending[s] = <<message>>, !.writeTask[s] = "sending"]

WritePop(s) ==
  /\ writeTask[s] = "waiting"
  /\ ~writeCancel[s]
  /\ queueEvent[s]
  /\ Becomes(write_pop(Heap, s))

\* send_str returns: the message is on the connection; back to the wait.
WriteSent(s) ==
  /\ writeTask[s] = "sending"
  /\ ~writeCancel[s]
  /\ Becomes([Heap EXCEPT !.written[s] = @ \o sending[s],
                          !.sending[s] = <<>>,
                          !.writeTask[s] = "waiting"])

\* Mutant of the failed write: the exception is logged, stop() is not called.
WriteFailed_noStop(s) ==
  /\ writeTask[s] = "sending"
  /\ ~writeCancel[s]
  /\ Becomes([Heap EXCEPT !.sending[s] = <<>>, !.writeTask[s] = "finished"])

\* send_str raises: except Exception, stop(); the write task finishes.
WriteFailed(s) ==
  /\ writeTask[s] = "sending"
  /\ ~writeCancel[s]
  /\ Becomes(ChatSession_stop([Heap EXCEPT !.sending[s] = <<>>,
                                           !.writeTask[s] = "finished"], s))

\* The writer is resumed with the CancelledError and re-raises it: the task
\* ends cancelled.
WriteCancelled(s) ==
  /\ writeTask[s] \in {"waiting", "sending"}
  /\ writeCancel[s]
  /\ Becomes([Heap EXCEPT !.sending[s] = <<>>,
                          !.writeTask[s] = "cancelled",
                          !.writeCancel[s] = FALSE])

----------------------------------------------------------------------------

Init ==
  /\ sessionCount = 1
  /\ sessions = {}
  /\ messageQueue = [s \in Sessions |-> <<>>]
  /\ queueEvent = [s \in Sessions |-> FALSE]
  /\ readTask = [s \in Sessions |-> "init"]
  /\ readCancel = [s \in Sessions |-> FALSE]
  /\ writeTask = [s \in Sessions |-> "none"]
  /\ writeCancel = [s \in Sessions |-> FALSE]
  /\ sending = [s \in Sessions |-> <<>>]
  /\ framesRead = 0
  /\ roomLog = <<>>
  /\ received = [s \in Sessions |-> <<>>]
  /\ written = [s \in Sessions |-> <<>>]
  /\ dropped = [s \in Sessions |-> <<>>]
  /\ registered = [s \in Sessions |-> 0]
  /\ unregistered = [s \in Sessions |-> 0]
  /\ failed = {}

Next ==
  \E s \in Sessions :
    \/ HandleSession(s)
    \/ ReadFrame(s)
    \/ ReadCancelled(s)
    \/ CancelHandler(s)
    \/ HandlerDone(s)
    \/ WritePop(s)
    \/ WriteSent(s)
    \/ WriteFailed(s)
    \/ WriteCancelled(s)

Spec == Init /\ [][Next]_vars

\* What the event loop and the connection guarantee: a task that is ready is
\* run (a requested cancellation is raised, a writer whose event is set goes
\* on), ws.close() ends, and send_str returns or raises.
Fairness ==
  \A s \in Sessions :
    /\ WF_vars(ReadCancelled(s))
    /\ WF_vars(WriteCancelled(s))
    /\ WF_vars(WritePop(s))
    /\ WF_vars(HandlerDone(s))
    /\ WF_vars(WriteSent(s) \/ WriteFailed(s))

\* Number of frames read in a run of the specification with fairness.
MaxFairFrames == 1

\* The steps of a run in which at most MaxFairFrames frames are read.
FairNext == Next /\ framesRead' <= MaxFairFrames

FairSpec == Init /\ [][FairNext]_vars /\ Fairness

----------------------------------------------------------------------------
(* Properties *)

\* The numbers of the broadcasts in a sequence of queue entries.
Seqs(q) == [i \in DOMAIN q |-> q[i].seq]

Range(f) == {f[i] : i \in DOMAIN f}

\* The histories fit the queues: what a queue received is what was written,
\* what send_str holds or lost, and what is still queued.
TypeOK ==
  /\ sessions \subseteq Sessions
  /\ sessionCount \in 1..(NumSessions + 1)
  /\ framesRead \in 0..MaxFrames
  /\ \A s \in Sessions :
       /\ readTask[s] \in {"init", "reading", "closing", "done"}
       /\ writeTask[s] \in {"none", "waiting", "sending", "finished", "cancelled"}
       /\ Len(sending[s]) <= 1
       /\ Len(received[s]) >= Len(written[s]) + Len(sending[s]) + Len(messageQueue[s])

\* C1: every session that registers is unregistered exactly once, whichever
\* way run ends: a session whose reader waits for a frame has registered once
\* and not unregistered, a session whose run is over has registered once and
\* unregistered once, and no assertion of register or unregister ever fails.
C1_UnregisterExactlyOnce ==
  /\ \A s \in Sessions :
       /\ readTask[s] = "init" => registered[s] = 0 /\ unregistered[s] = 0
       /\ readTask[s] = "reading" => registered[s] = 1 /\ unregistered[s] = 0
       /\ readTask[s] \in {"closing", "done"} => registered[s] = 1 /\ unregistered[s] = 1
  /\ "assert session not in self._sessions" \notin failed
  /\ "assert session in self._sessions" \notin failed

\* Both sessions have left, one of them after it was stopped for a full queue.
C1_Witness ==
  /\ \A s \in Sessions : readTask[s] = "done" /\ unregistered[s] = 1
  /\ \E s \in Sessions : dropped[s] # <<>>

\* C2: no message queue ever holds more than MAX_MESSAGES entries.
C2_QueueBounded ==
  \A s \in Sessions : Len(messageQueue[s]) <= MAX_MESSAGES

\* A queue is full and a broadcast to it has been dropped.
C2_Witness ==
  \E s \in Sessions : Len(messageQueue[s]) = MAX_MESSAGES /\ dropped[s] # <<>>

\* The entries the next broadcast can carry.
NextEntries ==
  {Entry(Len(roomLog) + 1, make_message(name(t), b)) : t \in Sessions, b \in Bodies}

\* C3: in every reachable state, send on a session with fewer than
\* MAX_MESSAGES queued entries appends the entry at the tail and requests no
\* cancellation; send on a session with MAX_MESSAGES queued entries leaves the
\* queue as it is, requests the cancellation of that session's read task, and
\* fails no assertion.  No other session's queue or task is touched.
C3_SendFrameEffect ==
  \A s \in sessions : \A entry \in NextEntries :
    LET H1 == ChatSession_send(Heap, s, entry)
    IN /\ Len(messageQueue[s]) < MAX_MESSAGES =>
            /\ H1.messageQueue[s] = Append(messageQueue[s], entry)
            /\ H1.readCancel[s] = readCancel[s]
       /\ Len(messageQueue[s]) = MAX_MESSAGES =>
            /\ H1.messageQueue[s] = messageQueue[s]
            /\ H1.readCancel[s]
            /\ H1.failed = failed
       /\ Len(messageQueue[s]) <= MAX_MESSAGES
       /\ H1.sessions = sessions
       /\ \A t \in Sessions \ {s} :
            /\ H1.messageQueue[t] = messageQueue[t]
            /\ H1.readCancel[t] = readCancel[t]

\* A member with a full queue for which a broadcast was dropped and whose
\* read task is to be cancelled, next to a member with room in its queue.
C3_Witness ==
  /\ \E s \in sessions :
       /\ Len(messageQueue[s]) = MAX_MESSAGES
       /\ dropped[s] # <<>>
       /\ readCancel[s]
  /\ \E t \in sessions : Len(messageQueue[t]) \in 1..(MAX_MESSAGES - 1)

\* The number of entries of q that carry broadcast n.
Count(n, q) == Cardinality({i \in DOMAIN q : q[i].seq = n})

IsIncreasing(f) == \A i, j \in DOMAIN f : i < j => f[i] < f[j]

IsPrefix(p, q) == Len(p) <= Len(q) /\ \A i \in DOMAIN p : p[i] = q[i]

IsSuffix(p, q) ==
  Len(p) <= Len(q) /\ \A i \in DOMAIN p : p[i] = q[Len(q) - Len(p) + i]

\* The broadcasts made while s was a member.
SentTo(s) == {n \in DOMAIN roomLog : s \in roomLog[n].members}

\* C4 as stated: every broadcast is received exactly once by every session
\* that was a member at the broadcast, and every queue receives its broadcasts
\* in the order of the room.
C4_EveryMemberReceives ==
  /\ \A n \in DOMAIN roomLog : \A s \in roomLog[n].members : Count(n, received[s]) = 1
  /\ \A s \in Sessions : IsIncreasing(Seqs(received[s]))

\* One step of the fan-out: a member with room in its queue gets the entry at
\* the tail of its queue, a member with a full queue gets nothing and the
\* broadcast is dropped for it, and nobody else gets anything.
C4_FanOutStep ==
  /\ Len(roomLog') \in {Len(roomLog), Len(roomLog) + 1}
  /\ Len(roomLog') = Len(roomLog) => received' = received /\ dropped' = dropped
  /\ Len(roomLog') = Len(roomLog) + 1 =>
       LET n == Len(roomLog')
           entry == Entry(n, roomLog'[n].message)
       IN \A s \in Sessions :
            IF s \in roomLog'[n].members /\ Len(messageQueue[s]) < MAX_MESSAGES
              THEN /\ messageQueue'[s] = Append(messageQueue[s], entry)
                   /\ received'[s] = Append(received[s], entry)
                   /\ dropped'[s] = dropped[s]
              ELSE /\ messageQueue'[s] = messageQueue[s]
                   /\ received'[s] = received[s]
                   /\ dropped'[s] = IF s \in roomLog'[n].members
                                      THEN Append(dropped[s], n)
                                      ELSE dropped[s]

\* Every broadcast is received exactly once or dropped exactly once by every
\* member, never both, by nobody else, and in the order of the room.
C4_OnceOrDropped ==
  \A s \in Sessions :
    /\ \A n \in DOMAIN roomLog :
         Count(n, received[s]) + Cardinality({i \in DOMAIN dropped[s] : dropped[s][i] = n})
           = IF s \in roomLog[n].members THEN 1 ELSE 0
    /\ \A i \in DOMAIN received[s] :
         /\ received[s][i].seq \in DOMAIN roomLog
         /\ received[s][i].data = roomLog[received[s][i].seq].message
    /\ IsIncreasing(Seqs(received[s]))
    /\ IsIncreasing(dropped[s])

\* C4, amended: every broadcast is appended exactly once to the queue of every
\* member whose queue holds fewer than MAX_MESSAGES entries at that moment and
\* is dropped for every member whose queue is full; every queue receives the
\* broadcasts it receives in the order in which the room processed them.
C4_FanOut == []C4_OnceOrDropped /\ [][C4_FanOutStep]_vars

\* A broadcast to two members was queued for one and dropped for the other.
C4_Witness ==
  \E n \in DOMAIN roomLog : \E s, t \in roomLog[n].members :
    /\ Count(n, received[s]) = 1
    /\ n \in Range(dropped[t])

\* C5: a message a session sends is received exactly once by every other
\* member and not at all by the sender.
C5_NoEcho ==
  \A n \in DOMAIN roomLog : \A a \in Sessions :
    roomLog[n].message.author = name(a) =>
      /\ Count(n, received[a]) = 0
      /\ \A t \in roomLog[n].members \ {a} : Count(n, received[t]) = 1

\* C6: every queue receives the broadcasts in the order of the room, hence
\* two messages of one sender in the order the sender sent them; the writer
\* writes the entries in the order of the queue: what is written, followed by
\* what send_str holds, is a prefix of what the queue received, and what is
\* queued is a suffix of it.
C6_OrderPreserved ==
  \A r \in Sessions :
    /\ IsIncreasing(Seqs(received[r]))
    /\ IsIncreasing(Seqs(written[r]))
    /\ IsPrefix(written[r] \o sending[r], received[r])
    /\ IsSuffix(messageQueue[r], received[r])
    /\ \A i, j \in DOMAIN written[r] :
         /\ written[r][i].data.author = written[r][j].data.author
         /\ written[r][i].seq < written[r][j].seq
         => i < j

\* A session has written two messages of another session, after something else.
C6_Witness ==
  \E r, s \in Sessions :
    /\ r # s
    /\ Len(written[r]) >= 3
    /\ \E i, j \in DOMAIN written[r] :
         /\ i < j
         /\ written[r][i].data.author = name(s)
         /\ written[r][j].data.author = name(s)

\* The writer of s has not popped anything yet.
NeverDrained(s) == readTask[s] # "init" /\ received[s] = messageQueue[s]

Min(a, b) == IF a <= b THEN a ELSE b

\* C7: for a session whose writer never pops, the first MAX_MESSAGES
\* broadcasts made while it is a member are queued and all later ones are
\* dropped; the queue never holds more; as soon as more than MAX_MESSAGES
\* broadcasts were made, stop() has been called (the cancellation of the read
\* task is requested or the reader has ended), and no broadcast is dropped
\* before.
C7_SlowConsumer ==
  \A s \in Sessions :
    NeverDrained(s) =>
      /\ Len(messageQueue[s]) = Min(Cardinality(SentTo(s)), MAX_MESSAGES)
      /\ Len(dropped[s]) = Cardinality(SentTo(s)) - Len(messageQueue[s])
      /\ \A i \in DOMAIN messageQueue[s] : \A j \in DOMAIN dropped[s] :
           messageQueue[s][i].seq < dropped[s][j]
      /\ Cardinality(SentTo(s)) > MAX_MESSAGES =>
           readCancel[s] \/ readTask[s] \in {"closing", "done"}

\* A session that never popped has a full queue, one broadcast was dropped
\* for it and its read task is to be cancelled.
C7_Witness ==
  \E s \in Sessions :
    /\ NeverDrained(s)
    /\ Cardinality(SentTo(s)) = MAX_MESSAGES + 1
    /\ Len(dropped[s]) = 1
    /\ readCancel[s]
    /\ readTask[s] = "reading"

\* The step of s unregistering: s is removed, the leave notice is broadcast
\* to the members that remain, and s itself receives nothing.
C8_UnregisterStep ==
  \A s \in Sessions :
    unregistered'[s] # unregistered[s] =>
      /\ s \in sessions
      /\ sessions' = sessions \ {s}
      /\ Len(roomLog') = Len(roomLog) + 1
      /\ roomLog'[Len(roomLog')] =
           [message |-> make_message("SYSTEM", left(s)), members |-> sessions \ {s}]
      /\ received'[s] = received[s]
      /\ dropped'[s] = dropped[s]
      /\ \A t \in sessions \ {s} :
           \/ received'[t] = Append(received[t], Entry(Len(roomLog'), roomLog'[Len(roomLog')].message))
           \/ dropped'[t] = Append(dropped[t], Len(roomLog'))

\* No session ever receives its own leave notice.
C8_NoOwnLeaveNotice ==
  \A s \in Sessions : \A i \in DOMAIN received[s] :
    received[s][i].data # make_message("SYSTEM", left(s))

\* C8: unregister removes the session before it broadcasts the leave notice:
\* no queue ever receives the leave notice of its own session, and the notice
\* is sent to every session that is a member after the removal.
C8_LeaveAfterRemoval == []C8_NoOwnLeaveNotice /\ [][C8_UnregisterStep]_vars

\* A session has left and the other one received its leave notice.
C8_Witness ==
  \E s, t \in Sessions :
    /\ unregistered[s] = 1
    /\ t \in sessions
    /\ \E i \in DOMAIN received[t] : received[t][i].data = make_message("SYSTEM", left(s))

\* The step of s registering: s is added, the join notice is broadcast to the
\* members after the addition, s included.
C9_RegisterStep ==
  \A s \in Sessions :
    registered'[s] # registered[s] =>
      /\ s \notin sessions
      /\ sessions' = sessions \cup {s}
      /\ Len(roomLog') = Len(roomLog) + 1
      /\ roomLog'[Len(roomLog')] =
           [message |-> make_message("SYSTEM", joined(s)), members |-> sessions \cup {s}]
      /\ received'[s] = <<Entry(Len(roomLog'), make_message("SYSTEM", joined(s)))>>
      /\ messageQueue'[s] = received'[s]
      /\ \A t \in sessions :
           \/ received'[t] = Append(received[t], Entry(Len(roomLog'), roomLog'[Len(roomLog')].message))
           \/ dropped'[t] = Append(dropped[t], Len(roomLog'))

\* The first entry a queue receives is the join notice of its session; when
\* User#1 and User#2 have joined and nothing else was broadcast, User#1 has
\* received its own notice and then that of User#2.
C9_OwnJoinNoticeFirst ==
  /\ \A s \in Sessions :
       registered[s] = 1 =>
         /\ received[s] # <<>>
         /\ received[s][1].data = make_message("SYSTEM", joined(s))
  /\ (Len(roomLog) = 2 /\ sessions = {1, 2}) =>
       /\ [i \in 1..2 |-> received[1][i].data] =
            <<make_message("SYSTEM", joined(1)), make_message("SYSTEM", joined(2))>>
       /\ [i \in DOMAIN received[2] |-> received[2][i].data] =
            <<make_message("SYSTEM", joined(2))>>

\* C9: register adds the session and then broadcasts the join notice to the
\* members after the addition: every session already in the room is sent it,
\* and the joining session receives it as the first entry of its queue.
C9_JoinAfterAddition == []C9_OwnJoinNoticeFirst /\ [][C9_RegisterStep]_vars

\* User#1 and User#2 have joined, nothing else was broadcast.
C9_Witness ==
  /\ Len(roomLog) = 2
  /\ sessions = {1, 2}
  /\ Len(received[1]) = 2
  /\ Len(received[2]) = 1

RECURSIVE Sum(_, _)
Sum(f, S) ==
  IF S = {} THEN 0 ELSE LET x == CHOOSE y \in S : TRUE IN f[x] + Sum(f, S \ {x})

\* C10: session_count() is the number of completed register calls minus the
\* number of completed unregister calls, and the members are the sessions
\* that registered and did not unregister.
C10_SessionCount ==
  /\ session_count(Heap) = Sum(registered, Sessions) - Sum(unregistered, Sessions)
  /\ sessions = {s \in Sessions : registered[s] - unregistered[s] = 1}
  /\ \A s \in Sessions : registered[s] - unregistered[s] \in {0, 1}

\* Two sessions registered and one of them unregistered: one member.
C10_Witness ==
  /\ Sum(registered, Sessions) = 2
  /\ Sum(unregistered, Sessions) = 1
  /\ session_count(Heap) = 1

\* The writer of s has ended, by an exception or by its cancellation.
WriterStopped(s) == writeTask[s] \in {"finished", "cancelled"}

\* An ERROR frame read by s in the current state ends run: s is removed from
\* the room, its leave notice is broadcast to the members that remain, and
\* the write task has ended or its cancellation is requested.
C11_ErrorFrameEndsRun ==
  \A s \in Sessions :
    (readTask[s] = "reading" /\ ~readCancel[s]) =>
      LET H1 == run_frame(Heap, s, OtherFrame("ERROR"))
      IN /\ s \in sessions
         /\ H1.sessions = sessions \ {s}
         /\ H1.readTask[s] = "closing"
         /\ H1.unregistered[s] = 1
         /\ H1.writeTask[s] \in {"finished", "cancelled"} \/ H1.writeCancel[s]
         /\ H1.roomLog = Append(roomLog, [message |-> make_message("SYSTEM", left(s)),
                                          members |-> sessions \ {s}])

\* A writer that ended by an exception has called stop(): the cancellation
\* of the read task is requested unless run is over already.
C11_WriteFailureStops ==
  \A s \in Sessions :
    writeTask[s] = "finished" => readCancel[s] \/ readTask[s] \in {"closing", "done"}

\* C11: a transport error ends the session: an ERROR frame ends run at once,
\* with the session removed, its leave notice broadcast to the remaining
\* members and the write task cancelled; after a failed write the write task
\* has ended and the session is eventually removed from the room, with its
\* leave notice broadcast; a write task whose cancellation is requested
\* eventually ends.
C11_TransportErrorFatal ==
  /\ []C11_ErrorFrameEndsRun
  /\ []C11_WriteFailureStops
  /\ \A s \in Sessions :
       (writeTask[s] = "finished" \/ writeCancel[s])
         ~> (WriterStopped(s) /\ s \notin sessions /\ unregistered[s] = 1)

\* The write of a session failed, the session has left and the other
\* session, still a member, has received its leave notice.
C11_Witness ==
  \E s, t \in Sessions :
    /\ writeTask[s] = "finished"
    /\ unregistered[s] = 1
    /\ t \in sessions
    /\ \E i \in DOMAIN received[t] : received[t][i].data = make_message("SYSTEM", left(s))

\* The reader of s waits for a frame and will get one, not a CancelledError.
CanRead(s) == readTask[s] = "reading" /\ ~readCancel[s]

\* C12: a TEXT frame with a type other than "message", read in any reachable
\* state, changes nothing: no broadcast, no queue, no membership, no task;
\* the session that reads it is a member, its write task is running, and its
\* reader waits for the next frame.
C12_UnknownTypeIgnored ==
  \A s \in Sessions :
    CanRead(s) =>
      LET H1 == run_frame(Heap, s, TextFrame(TRUE, "ping", Absent))
      IN /\ H1 = Heap
         /\ H1.readTask[s] = "reading"
         /\ s \in H1.sessions
         /\ H1.writeTask[s] \in {"waiting", "sending"}
         /\ ~H1.writeCancel[s]

\* User#1 has read a frame that was not broadcast and waits for the next one.
C12_Witness ==
  /\ framesRead = 1
  /\ Len(roomLog) = 1
  /\ sessions = {1}
  /\ CanRead(1)
  /\ writeTask[1] \in {"waiting", "sending"}

\* The TEXT frames that json.loads rejects or that lack a key run reads.
MalformedFrames ==
  {TextFrame(FALSE, Absent, Absent), TextFrame(TRUE, Absent, "a"),
   TextFrame(TRUE, "message", Absent)}

\* C13 as stated: after a malformed frame the session is still a member and
\* its reader waits for the next frame.
C13_MalformedNonFatal ==
  \A s \in Sessions : \A frame \in MalformedFrames :
    CanRead(s) =>
      LET H1 == run_frame(Heap, s, frame)
      IN s \in H1.sessions /\ H1.readTask[s] = "reading"

\* C13, amended: a malformed inbound frame is fatal to the session that reads
\* it: the exception is logged and run ends through its finally block, so the
\* session is removed from the room, its leave notice is broadcast to the
\* remaining members, its write task is cancelled unless it has ended, and
\* the reader reads no further frame.
C13_MalformedEndsRun ==
  \A s \in Sessions : \A frame \in MalformedFrames :
    CanRead(s) =>
      LET H1 == run_frame(Heap, s, frame)
      IN /\ s \in sessions
         /\ H1.sessions = sessions \ {s}
         /\ H1.readTask[s] = "closing"
         /\ H1.unregistered[s] = 1
         /\ H1.writeTask[s] \in {"finished", "cancelled"} \/ H1.writeCancel[s]
         /\ H1.roomLog = Append(roomLog, [message |-> make_message("SYSTEM", left(s)),
                                          members |-> sessions \ {s}])

\* The run of a session ended at a frame, without a cancellation, while the
\* other session reads on and has been sent the leave notice.
C13_Witness ==
  \E s, t \in Sessions :
    /\ readTask[s] = "closing"
    /\ writeCancel[s]
    /\ dropped[s] = <<>>
    /\ s \notin sessions
    /\ CanRead(t)
    /\ roomLog[Len(roomLog)] = [message |-> make_message("SYSTEM", left(s)), members |-> {t}]

\* The frames that end run with an error: the ERROR frame and the malformed ones.
FatalFrames == MalformedFrames \cup {OtherFrame("ERROR")}

\* The tasks and the membership of t are the same in the heaps H and H1.
SameTasks(H, H1, t) ==
  /\ (t \in H1.sessions) = (t \in H.sessions)
  /\ H1.readTask[t] = H.readTask[t]
  /\ H1.writeTask[t] = H.writeTask[t]
  /\ H1.writeCancel[t] = H.writeCancel[t]
  /\ H1.unregistered[t] = H.unregistered[t]

\* A step in which the writer of s ends by an exception leaves t alone.
WriteFailureContained(s, t) ==
  (writeTask[s] # "finished" /\ writeTask'[s] = "finished") =>
    /\ SameTasks(Heap, Heap', t)
    /\ readCancel'[t] = readCancel[t]
    /\ messageQueue'[t] = messageQueue[t]

\* A frame that is fatal to s leaves the membership and the tasks of every
\* other session alone.
C14_FatalFrameTouchesNobody ==
  \A s \in Sessions : \A frame \in FatalFrames :
    CanRead(s) =>
      LET H1 == run_frame(Heap, s, frame)
      IN \A t \in Sessions \ {s} :
           SameTasks(Heap, H1, t) /\ H1.readCancel[t] = readCancel[t]

C14_FatalFrameContained ==
  \A s \in Sessions : \A frame \in FatalFrames :
    CanRead(s) =>
      LET H1 == run_frame(Heap, s, frame)
      IN \A t \in Sessions \ {s} :
           /\ SameTasks(Heap, H1, t)
           /\ H1.readCancel[t] =
                (readCancel[t] \/ (t \in sessions /\ Len(messageQueue[t]) = MAX_MESSAGES))
           /\ H1.readCancel[t] # readCancel[t] => H1.dropped[t] = Append(dropped[t], Len(H1.roomLog))

C15_RunOverCleanedUp ==
  \A s \in Sessions :
    readTask[s] \in {"closing", "done"} =>
      /\ s \notin sessions
      /\ unregistered[s] = 1
      /\ WriterStopped(s) \/ writeCancel[s]

\* A session that is removed is no member in any later state.
C15_RemovedForGood ==
  \A s \in Sessions : (s \in sessions /\ s \notin sessions') => unregistered'[s] = 1

\* C15: once the cancellation of a session's read task is requested, the
\* session is eventually removed from the room and its write task eventually
\* ends, cancelled or finished; a session that was removed has unregistered
\* and is never a member again.
C15_CancellationCompletes ==
  /\ \A s \in Sessions : readCancel[s] ~> (s \notin sessions /\ WriterStopped(s))
  /\ []C15_RunOverCleanedUp
  /\ [][C15_RemovedForGood]_vars

\* A session was stopped for a full queue; it has left the room and both of
\* its tasks have ended, the writer cancelled.
C15_Witness ==
  \E s \in Sessions :
    /\ dropped[s] # <<>>
    /\ readTask[s] = "done"
    /\ s \notin sessions
    /\ writeTask[s] = "cancelled"

\* The broadcasts of the leave notice of s.
LeaveNotices(s) ==
  {n \in DOMAIN roomLog : roomLog[n].message = make_message("SYSTEM", left(s))}

\* C16: stop() called twice in any reachable state gives the state stop()
\* called once gives, which differs from the state before at most in that the
\* cancellation of the read task is requested; stop() on a session whose read
\* task is done changes nothing; however many broadcasts were dropped for a
\* session, it unregisters at most once and its leave notice is broadcast
\* once per unregister.
C16_StopIdempotent ==
  \A s \in Sessions :
    /\ readTask[s] # "init" =>
         LET H1 == ChatSession_stop(Heap, s)
         IN /\ ChatSession_stop(H1, s) = H1
            /\ H1 = [Heap EXCEPT !.readCancel[s] = (readCancel[s] \/ readTask[s] # "done")]
            /\ readTask[s] = "done" => H1 = Heap
    /\ (dropped[s] # <<>> /\ readTask[s] = "reading") => readCancel[s]
    /\ unregistered[s] <= 1
    /\ Cardinality(LeaveNotices(s)) = unregistered[s]

\* Two broadcasts were dropped for a session, so stop() was called twice; it
\* has unregistered once, its leave notice was broadcast once, and its read
\* task is done.
C16_Witness ==
  \E s \in Sessions :
    /\ Len(dropped[s]) >= 2
    /\ unregistered[s] = 1
    /\ Cardinality(LeaveNotices(s)) = 1
    /\ readTask[s] = "done"

\* C17: between any two steps, the event of a session is set exactly if its
\* queue is not empty; so a writer that finds the event set finds an entry in
\* the queue, and the assertion of write never fails.
C17_EventIffNonEmpty ==
  /\ \A s \in Sessions : queueEvent[s] <=> (Len(messageQueue[s]) > 0)
  /\ "assert len(self._message_queue) > 0" \notin failed

\* The writer of one member has popped and written all its entries, which
\* cleared the event; another member has entries queued and its event set.
C17_Witness ==
  \E s, t \in sessions :
    /\ written[s] # <<>>
    /\ writeTask[s] = "waiting"
    /\ ~queueEvent[s]
    /\ Len(messageQueue[t]) >= 2
    /\ queueEvent[t]

\* The writer of s has something to write: an entry is queued or send_str
\* holds one.
Pending(s) == Len(messageQueue[s]) > 0 \/ sending[s] # <<>>

\* A writer that waits while its queue holds an entry finds the event set;
\* as long as the writer has not ended, what the queue received is what was
\* written, what send_str holds and what is queued, in this order.
C18_WriterReady ==
  \A s \in Sessions :
    /\ (writeTask[s] = "waiting" /\ Len(messageQueue[s]) > 0) => queueEvent[s]
    /\ ~WriterStopped(s) => received[s] = written[s] \o sending[s] \o messageQueue[s]

\* A step changes a queue only by an append at the tail or by the removal of
\* its head, which the writer passes to send_str.
C18_QueueStep ==
  \A s \in Sessions :
    \/ messageQueue'[s] = messageQueue[s]
    \/ \E entry \in Range(received'[s]) : messageQueue'[s] = Append(messageQueue[s], entry)
    \/ /\ messageQueue[s] # <<>>
       /\ messageQueue'[s] = Tail(messageQueue[s])
       /\ sending'[s] = <<Head(messageQueue[s])>>

\* C18: a writer never waits on a cleared event while its queue holds an
\* entry, and under fair scheduling, with send_str returning or raising,
\* every writer that has something to write eventually has written all of it
\* in the order of the queue, unless the writer ends first (its send fails or
\* its session ends).
C18_NoMissedWakeup ==
  /\ []C18_WriterReady
  /\ [][C18_QueueStep]_vars
  /\ \A s \in Sessions : Pending(s) ~> (~Pending(s) \/ WriterStopped(s))

\* A writer that waited with an empty queue was woken by a later broadcast
\* and has written it: all it received is written, the writer waits again.
C18_Witness ==
  \E s \in sessions :
    /\ Len(written[s]) >= 2
    /\ written[s] = received[s]
    /\ writeTask[s] = "waiting"
    /\ ~queueEvent[s]

\* The iteration of ChatRoom.send never finds the set changed; a member for
\* which a broadcast was dropped stays a member, with the cancellation of its
\* read task requested, until that task unregisters it.
C19_EvictedStaysMember ==
  /\ "set changed during iteration" \notin failed
  /\ \A t \in Sessions :
       (dropped[t] # <<>> /\ unregistered[t] = 0) => (t \in sessions /\ readCancel[t])

\* A step that broadcasts ends with the membership the broadcast iterated
\* over, visits every member once (queued or dropped), and a member it drops
\* the broadcast for is neither removed nor unregistered by that step.
C19_BroadcastStep ==
  Len(roomLog') > Len(roomLog) =>
    LET n == Len(roomLog')
        members == roomLog'[n].members
    IN /\ sessions' = members
       /\ \A t \in members :
            Count(n, received'[t]) + Cardinality({i \in DOMAIN dropped'[t] : dropped'[t][i] = n}) = 1
       /\ \A t \in Sessions :
            dropped'[t] # dropped[t] =>
              /\ t \in members
              /\ readCancel'[t]
              /\ unregistered'[t] = unregistered[t]
              /\ readTask'[t] = readTask[t]

\* C19: while ChatRoom.send fans a message out the membership does not
\* change: a full queue met in the fan-out only requests the cancellation of
\* that session's read task, the session stays a member until a later step
\* of its read task unregisters it, and every member is visited exactly once.
C19_StableMembership == []C19_EvictedStaysMember /\ [][C19_BroadcastStep]_vars

\* A broadcast was dropped for a member that is still in the room with its
\* cancellation pending, and the same broadcast was queued for another member.
C19_Witness ==
  \E t, u \in sessions :
    /\ t # u
    /\ dropped[t] # <<>>
    /\ readCancel[t]
    /\ dropped[t][Len(dropped[t])] \in Range(Seqs(received[u]))

\* C20: once a broadcast was dropped for a session, no later broadcast is
\* appended to its queue: every entry the queue of a session ever received,
\* and so every entry written to its connection, precedes every broadcast
\* dropped for it.
C20_NoGaps ==
  \A s \in Sessions :
    \A i \in DOMAIN received[s] : \A j \in DOMAIN dropped[s] :
      received[s][i].seq < dropped[s][j]

====
